---------------------------- MODULE Spec2Model ----------------------------
(***************************************************************************)
(* toggl2slack: the callbacks the program hands to toggl.NewHook, and the  *)
(* notification they send to the Slack webhook.                            *)
(*                                                                         *)
(* The polling loop itself (toggl.NewHook, package github.com/en30/toggl)  *)
(* is a dependency whose code is not part of this repository.  It is the   *)
(* environment of this model: it may invoke onStart, onStop and onError,   *)
(* one call at a time, in any order and with any activity.                 *)
(***************************************************************************)
EXTENDS Integers, Sequences, FiniteSets, TLC

VARIABLES
    config,   \* *Config returned by loadConfig (Users, WebhookURL, Templates)
    pc,       \* "running" | "panicked" | "exited": the process
    err,      \* the variable err of start(), assigned by both callbacks
    held,     \* the toggl.Activity the hook last passed by pointer, as the hook sees it afterwards
    events,   \* history: the callbacks the hook has invoked, in order
    calls,    \* history: what each call of notify returned
    posts,    \* history: the POST requests handed to client.Do, in order
    log,      \* the lines written with log.Printf / log.Println
    merge     \* a Payload under repeated reverseMergeDefault (specification SpecMerge)

vars == <<config, pc, err, held, events, calls, posts, log, merge>>

\* The number of callbacks the hook invokes in one run of the model.
MaxEvents == 3

\* The number of times reverseMergeDefault is applied to one Payload.
MaxApply == 2

---------------------------------------------------------------------------
(* Values *)

Nil == "nil"

EmptyMap == [k \in {} |-> k]

DefaultChannel == "#general"
DefaultUsername == "Toggl"
DefaultIconUrl == "http://blog.toggl.com/wp-content/uploads/2015/04/toggl-button-light.png"

\* type Payload
Payload(channel, emoji, url, username, text) ==
    [Channel |-> channel, IconEmoji |-> emoji, IconUrl |-> url,
     Username |-> username, Text |-> text]

\* The zero value of Payload.
ZeroPayload == Payload("", "", "", "", "")

\* The payloads a configuration file can give a user: every field set or not.
PayloadConfigs ==
    [Channel : {"", "#dev"}, IconEmoji : {"", ":clock1:"},
     IconUrl : {"", "http://example.com/icon.png"},
     Username : {"", "toggl2slack"}, Text : {""}]

\* toggl.Activity, as far as the program reads it.
Activities ==
    { [Id |-> 1, UserId |-> 7, Description |-> "write spec"],
      [Id |-> 2, UserId |-> 12, Description |-> "review"] }

NoActivity == [Id |-> 0, UserId |-> 0, Description |-> ""]

\* A parsed template: the literal text and the fields it substitutes.
Template(name, parts) == [name |-> name, isNil |-> FALSE, parts |-> parts]
NilTemplate == [name |-> "", isNil |-> TRUE, parts |-> <<>>]
Lit(s) == [kind |-> "text", val |-> s]
Field(f) == [kind |-> "field", val |-> f]

\* Templates.UnmarshalJSON on the templates that Templates.MarshalJSON writes.
DefaultTemplates ==
    [Started |-> Template("started", <<Lit("started "), Field("Description")>>),
     Finished |-> Template("finished", <<Lit("finished "), Field("Description")>>)]

\* Config.Templates when the file has no "templates" key: UnmarshalJSON never runs.
ZeroTemplates == [Started |-> NilTemplate, Finished |-> NilTemplate]

\* The user of generateConfig's default configuration.
DefaultUserPayload == Payload("#general", "", "", "toggl2slack", "")

UsersConfigs ==
    { u1 @@ u2 :
        u1 \in {EmptyMap} \cup { ("7" :> p) : p \in PayloadConfigs },
        u2 \in {EmptyMap, ("12" :> DefaultUserPayload),
                ("TOGGL_USER_ID" :> DefaultUserPayload)} }

WebhookURLs == {"https://hooks.slack.com/services/...", "://hooks.slack.com"}

\* type Config, as loadConfig can return it.
Configs ==
    [Users : UsersConfigs, WebhookURL : WebhookURLs,
     Templates : {DefaultTemplates, ZeroTemplates}]

\* What client.Do can answer.
NetOutcomes == {"200 OK", "500 Internal Server Error", "network error"}

---------------------------------------------------------------------------
(* Library functions the program calls *)

Digits == <<"0", "1", "2", "3", "4", "5", "6", "7", "8", "9">>

\* strconv.Itoa
RECURSIVE Itoa(_)
Itoa(n) ==
    IF n < 0 THEN "-" \o Itoa(-n)
    ELSE IF n < 10 THEN Digits[n + 1]
    ELSE Itoa(n \div 10) \o Digits[(n % 10) + 1]

\* (*template.Template).Execute: the text written to the buffer.  A nil
\* template is a nil dereference (a runtime panic, which Execute re-raises); a
\* field the activity does not have ends the rendering with an error and
\* leaves what was written so far.
RECURSIVE ExecuteParts(_, _, _)
ExecuteParts(parts, a, out) ==
    IF parts = <<>> THEN out
    ELSE LET h == Head(parts)
         IN  IF h.kind = "text" THEN ExecuteParts(Tail(parts), a, out \o h.val)
             ELSE IF h.val \in DOMAIN a /\ h.val = "Description"
                  THEN ExecuteParts(Tail(parts), a, out \o a.Description)
                  ELSE out

Execute(t, a) ==
    IF t.isNil THEN [panicked |-> TRUE, out |-> ""]
    ELSE [panicked |-> FALSE, out |-> ExecuteParts(t.parts, a, "")]

\* json.Marshal of a Payload: icon_emoji, icon_url and text are omitempty.
OptionalKeys(p) ==
    (IF p.IconEmoji # "" THEN {"icon_emoji"} ELSE {})
    \cup (IF p.IconUrl # "" THEN {"icon_url"} ELSE {})
    \cup (IF p.Text # "" THEN {"text"} ELSE {})

Marshal(p) ==
    [k \in {"channel", "username"} \cup OptionalKeys(p) |->
        CASE k = "channel" -> p.Channel
          [] k = "username" -> p.Username
          [] k = "icon_emoji" -> p.IconEmoji
          [] k = "icon_url" -> p.IconUrl
          [] k = "text" -> p.Text]

\* http.NewRequest fails when url.Parse rejects the URL (here: no scheme).
NewRequestFails(url) == url = "://hooks.slack.com"

---------------------------------------------------------------------------
(* The program *)

\* Mutant: both icons set is resolved by keeping the emoji instead of panicking.
reverseMergeDefault_PickEmoji(p) ==
    LET p1 == IF p.Channel = "" THEN [p EXCEPT !.Channel = DefaultChannel] ELSE p
        p2 == IF p1.Username = "" THEN [p1 EXCEPT !.Username = DefaultUsername] ELSE p1
        p3 == IF p2.IconEmoji = "" /\ p2.IconUrl = ""
              THEN [p2 EXCEPT !.IconUrl = DefaultIconUrl] ELSE p2
        p4 == IF p3.IconEmoji # "" /\ p3.IconUrl # "" THEN [p3 EXCEPT !.IconUrl = ""] ELSE p3
    IN  [p |-> p4, panicked |-> FALSE]

\* Mutant: the check for both icons comes first, and the icon URL is
\* defaulted whenever it is empty.
reverseMergeDefault_CheckFirst(p) ==
    LET p1 == IF p.Channel = "" THEN [p EXCEPT !.Channel = DefaultChannel] ELSE p
        p2 == IF p1.Username = "" THEN [p1 EXCEPT !.Username = DefaultUsername] ELSE p1
        p3 == IF p2.IconUrl = "" THEN [p2 EXCEPT !.IconUrl = DefaultIconUrl] ELSE p2
    IN  [p |-> p3, panicked |-> (p.IconEmoji # "" /\ p.IconUrl # "")]

\* Mutant: the username is overwritten, not defaulted.
reverseMergeDefault_Overwrite(p) ==
    LET p1 == IF p.Channel = "" THEN [p EXCEPT !.Channel = DefaultChannel] ELSE p
        p2 == [p1 EXCEPT !.Username = DefaultUsername]
        p3 == IF p2.IconEmoji = "" /\ p2.IconUrl = ""
              THEN [p2 EXCEPT !.IconUrl = DefaultIconUrl] ELSE p2
    IN  [p |-> p3, panicked |-> (p3.IconEmoji # "" /\ p3.IconUrl # "")]

\* (*Payload).reverseMergeDefault: the payload as it leaves it, and whether it panics.
reverseMergeDefault(p) ==
    LET p1 == IF p.Channel = "" THEN [p EXCEPT !.Channel = DefaultChannel] ELSE p
        p2 == IF p1.Username = "" THEN [p1 EXCEPT !.Username = DefaultUsername] ELSE p1
        p3 == IF p2.IconEmoji = "" /\ p2.IconUrl = ""
              THEN [p2 EXCEPT !.IconUrl = DefaultIconUrl] ELSE p2
    IN  [p |-> p3, panicked |-> (p3.IconEmoji # "" /\ p3.IconUrl # "")]

\* What a call leaves behind: the process, the error returned, the POSTs given
\* to client.Do, the log lines, and the caller's Config and Activity afterwards.
Effect(pcAfter, e, sent, lines, c, a) ==
    [pc |-> pcAfter, err |-> e, posts |-> sent, logs |-> lines, c |-> c, a |-> a]

\* notify(c, t, a, p): p is the function's own copy of the user's Payload;
\* net is what client.Do answers if it is reached.
notify(c, t, a, p, net) ==
    LET exec == Execute(t, a)
        p1 == [p EXCEPT !.Text = exec.out]
        m == reverseMergeDefault(p1)
        req == [url |-> c.WebhookURL, body |-> Marshal(m.p), resp |-> net, tmpl |-> t.name]
        reqLine == "HTTP/1.1 POST hooks.slack.com"
    IN  IF exec.panicked \/ m.panicked
        THEN Effect("panicked", Nil, <<>>, <<>>, c, a)
        ELSE IF NewRequestFails(c.WebhookURL)
        THEN Effect("running", "missing protocol scheme", <<>>, <<>>, c, a)
        ELSE IF net = "network error"
        THEN Effect("running", net, <<req>>, <<reqLine>>, c, a)
        ELSE Effect("running", Nil, <<req>>, <<reqLine, "HTTP/1.1 " \o net>>, c, a)

\* What the callback does with notify's result r: err = r.err, logged when not nil.
\* A panic in notify leaves err as it was (e).
Logged(r, e) ==
    IF r.pc # "running" THEN [r EXCEPT !.err = e]
    ELSE IF r.err # Nil
    THEN [r EXCEPT !.logs = Append(@, "ERROR[toggl2slack]: " \o r.err)]
    ELSE r

\* Mutant: the map is read without the ok test, so an absent user gets the zero Payload.
Dispatch_NoOkCheck(c, e, t, a, net) ==
    LET k == Itoa(a.UserId)
        p == IF k \in DOMAIN c.Users THEN c.Users[k] ELSE ZeroPayload
    IN  [called |-> TRUE, eff |-> Logged(notify(c, t, a, p, net), e)]

\* Mutant: notify works on the Payload stored in Config.Users, not on a copy.
Dispatch_ByReference(c, e, t, a, net) ==
    LET k == Itoa(a.UserId)
    IN  IF k \in DOMAIN c.Users
        THEN LET r == notify(c, t, a, c.Users[k], net)
                 q == reverseMergeDefault([c.Users[k] EXCEPT !.Text = Execute(t, a).out]).p
             IN  [called |-> TRUE,
                  eff |-> Logged([r EXCEPT !.c = [c EXCEPT !.Users[k] = q]], e)]
        ELSE [called |-> FALSE, eff |-> Effect("running", e, <<>>, <<>>, c, a)]

\* Mutant: a failed delivery is logged with log.Fatal, which exits.
Dispatch_Fatal(c, e, t, a, net) ==
    IF Itoa(a.UserId) \in DOMAIN c.Users
    THEN LET r == Logged(notify(c, t, a, c.Users[Itoa(a.UserId)], net), e)
         IN  [called |-> TRUE,
              eff |-> IF r.pc = "running" /\ r.err # Nil THEN [r EXCEPT !.pc = "exited"] ELSE r]
    ELSE [called |-> FALSE, eff |-> Effect("running", e, <<>>, <<>>, c, a)]

\* The body both callbacks share: the lookup of the activity's user in
\* Config.Users, the call of notify with that user's Payload, and the logging
\* of what notify returned.
Dispatch(c, e, t, a, net) ==
    IF Itoa(a.UserId) \in DOMAIN c.Users
    THEN [called |-> TRUE,
          eff |-> Logged(notify(c, t, a, c.Users[Itoa(a.UserId)], net), e)]
    ELSE [called |-> FALSE, eff |-> Effect("running", e, <<>>, <<>>, c, a)]

\* onStart := func(a *toggl.Activity)
onStart(c, e, a, net) == Dispatch(c, e, c.Templates.Started, a, net)

\* Mutant: onStop renders the started template.
onStop_StartedTemplate(c, e, a, net) == Dispatch(c, e, c.Templates.Started, a, net)

\* onStop := func(a *toggl.Activity)
onStop(c, e, a, net) == Dispatch(c, e, c.Templates.Finished, a, net)

\* onError := func(e error)
onError(c, e, a) ==
    [called |-> FALSE,
     eff |-> Effect("running", e, <<>>, <<"Error[toggl2slack]: poll failed">>, c, a)]

---------------------------------------------------------------------------
(* The state machine *)

Tag(s, n) == [i \in 1..Len(s) |-> [ev |-> n] @@ s[i]]

\* One callback, from the hook's call to its return.
Invoke(kind, a, d) ==
    LET n == Len(events) + 1
    IN  /\ events' = Append(events, [kind |-> kind, a |-> a])
        /\ calls' = IF d.called
                    THEN Append(calls,
                           [ev |-> n, returned |-> d.eff.pc # "panicked",
                            err |-> IF d.eff.pc # "panicked" THEN d.eff.err ELSE Nil])
                    ELSE calls
        /\ posts' = posts \o Tag(d.eff.posts, n)
        /\ log' = log \o Tag([i \in 1..Len(d.eff.logs) |-> [line |-> d.eff.logs[i]]], n)
        /\ err' = d.eff.err
        /\ pc' = d.eff.pc
        /\ config' = d.eff.c
        /\ held' = d.eff.a
        /\ UNCHANGED merge

NoMerge == [input |-> ZeroPayload, p |-> ZeroPayload, first |-> ZeroPayload,
            n |-> 0, panicked |-> FALSE]

\* start(): loadConfig succeeded and toggl.NewHook returned nil.
Init ==
    /\ config \in Configs
    /\ pc = "running"
    /\ err = Nil
    /\ held = NoActivity
    /\ events = <<>>
    /\ calls = <<>>
    /\ posts = <<>>
    /\ log = <<>>
    /\ merge = NoMerge

CanCall == pc = "running" /\ Len(events) < MaxEvents

HookStart ==
    /\ CanCall
    /\ \E a \in Activities, net \in NetOutcomes :
          Invoke("start", a, onStart(config, err, a, net))

HookStop ==
    /\ CanCall
    /\ \E a \in Activities, net \in NetOutcomes :
          Invoke("stop", a, onStop(config, err, a, net))

HookError ==
    /\ CanCall
    /\ Invoke("error", held, onError(config, err, held))

Next == HookStart \/ HookStop \/ HookError

Spec == Init /\ [][Next]_vars

---------------------------------------------------------------------------
(* reverseMergeDefault on its own: any Payload, finalized again and again *)

MergeInputs ==
    [Channel : {"", DefaultChannel, "#dev"}, IconEmoji : {"", ":clock1:"},
     IconUrl : {"", DefaultIconUrl, "http://example.com/icon.png"},
     Username : {"", DefaultUsername, "toggl2slack"},
     Text : {"", "started review"}]

\* The configuration generateConfig writes, loaded back.
DefaultConfig ==
    [Users |-> ("TOGGL_USER_ID" :> DefaultUserPayload),
     WebhookURL |-> "https://hooks.slack.com/services/...",
     Templates |-> DefaultTemplates]

MergeInit ==
    /\ \E p \in MergeInputs :
          merge = [input |-> p, p |-> p, first |-> p, n |-> 0, panicked |-> FALSE]
    /\ config = DefaultConfig
    /\ pc = "running"
    /\ err = Nil
    /\ held = NoActivity
    /\ events = <<>>
    /\ calls = <<>>
    /\ posts = <<>>
    /\ log = <<>>

\* p.reverseMergeDefault() on the payload the previous call left.
MergeApply ==
    /\ merge.n < MaxApply
    /\ ~merge.panicked
    /\ LET r == reverseMergeDefault(merge.p)
       IN  merge' = [merge EXCEPT !.p = r.p,
                                  !.first = IF merge.n = 0 THEN r.p ELSE @,
                                  !.n = @ + 1,
                                  !.panicked = r.panicked]
    /\ UNCHANGED <<config, pc, err, held, events, calls, posts, log>>

MergeNext == MergeApply

SpecMerge == MergeInit /\ [][MergeNext]_vars

---------------------------------------------------------------------------
(* Properties *)

\* The decimal string of a user id, written out.
KeyOf(a) == CASE a.UserId = 7 -> "7" [] a.UserId = 12 -> "12" [] OTHER -> "0"

IsNotification(e) == e.kind \in {"start", "stop"}

\* The event's user is a key of Config.Users.
ForUser(e) == IsNotification(e) /\ KeyOf(e.a) \in DOMAIN config.Users

\* The Payload Config.Users holds for the event's user.
Stored(e) == config.Users[KeyOf(e.a)]

BothIcons(p) == p.IconEmoji # "" /\ p.IconUrl # ""

PostsOf(i) == {j \in 1..Len(posts) : posts[j].ev = i}
CallsOf(i) == {k \in 1..Len(calls) : calls[k].ev = i}
LinesOf(i) == {l \in 1..Len(log) : log[l].ev = i}

\* What the default templates render for an event.
ExpectedText(e) ==
    (IF e.kind = "start" THEN "started " ELSE "finished ") \o e.a.Description

ExpectedTemplate(e) == IF e.kind = "start" THEN "started" ELSE "finished"

\* The configuration lets a notification for the event's user reach client.Do:
\* both templates are defined, the webhook URL parses, and the user's Payload
\* does not set both icons.
Deliverable(e) ==
    /\ ForUser(e)
    /\ ~BothIcons(Stored(e))
    /\ ~config.Templates.Started.isNil
    /\ ~config.Templates.Finished.isNil
    /\ config.WebhookURL = "https://hooks.slack.com/services/..."

\* The delivery for event i failed: notify returned an error, or the webhook
\* answered something other than 2xx.
DeliveryFailed(i) ==
    \/ \E k \in CallsOf(i) : calls[k].returned /\ calls[k].err # Nil
    \/ \E j \in PostsOf(i) : posts[j].resp # "200 OK"

\* C2: a start or stop event whose user id, as a decimal string, is not a key
\* of Config.Users never calls notify, never issues a POST, writes no log line
\* (no error is reported) and leaves the process running.
C2_AbsentUserIgnored ==
    \A i \in 1..Len(events) :
        (IsNotification(events[i]) /\ KeyOf(events[i].a) \notin DOMAIN config.Users)
        => /\ PostsOf(i) = {}
           /\ CallsOf(i) = {}
           /\ LinesOf(i) = {}
           /\ (i = Len(events) => pc = "running")

\* C2 witness: a notification was delivered, and then an event of a user absent
\* from a non-empty Config.Users was raised.
C2_Witness ==
    /\ Len(events) >= 2
    /\ DOMAIN config.Users # {}
    /\ PostsOf(1) # {}
    /\ IsNotification(events[2])
    /\ KeyOf(events[2].a) \notin DOMAIN config.Users

\* C3 (as claimed): whenever the POST fails with a network error or the
\* webhook answers a non-2xx status, notify returns a non-nil error and the
\* caller logs it.
C3_FailureIsReturned ==
    \A j \in 1..Len(posts) :
        posts[j].resp # "200 OK"
        => \E k \in CallsOf(posts[j].ev) :
              /\ calls[k].err # Nil
              /\ \E l \in LinesOf(posts[j].ev) :
                    log[l].line = "ERROR[toggl2slack]: " \o calls[k].err

\* C4: the process is running after the configuration is loaded, whatever the
\* payloads; an event of a user whose stored Payload sets both icon_emoji and
\* icon_url panics the process in that very callback, notify does not return,
\* and no POST is issued for it.
C4_BothIconsFatal ==
    /\ (events = <<>> => pc = "running")
    /\ \A i \in 1..Len(events) :
          (ForUser(events[i]) /\ BothIcons(Stored(events[i])))
          => /\ PostsOf(i) = {}
             /\ i = Len(events)
             /\ pc = "panicked"
             /\ \A k \in CallsOf(i) : ~calls[k].returned

\* C4 witness: with the templates defined, a notification of another user was
\* posted, and then an event of a user with both icons set was raised.
C4_Witness ==
    /\ Len(events) = 2
    /\ ~config.Templates.Started.isNil
    /\ PostsOf(1) # {}
    /\ ForUser(events[2])
    /\ BothIcons(Stored(events[2]))

\* Every POST carries the text rendered from its own event's activity.
C5_TextFresh ==
    \A j \in 1..Len(posts) :
        /\ "text" \in DOMAIN posts[j].body
        /\ posts[j].body.text = ExpectedText(events[posts[j].ev])

\* C5: no step changes Config (so Config.Users keeps its loaded value: a stored
\* Payload never acquires text or defaults), and every POST's text is rendered
\* from the current event's activity alone.
C5_ConfigUntouched == [](C5_TextFresh) /\ [][config' = config]_vars

\* C5 witness: two notifications of the same user, whose stored Payload leaves
\* the channel and the text empty, were posted with different texts.
C5_Witness ==
    \E j, k \in 1..Len(posts) :
        /\ j < k
        /\ KeyOf(events[posts[j].ev].a) = KeyOf(events[posts[k].ev].a)
        /\ posts[j].body.text # posts[k].body.text
        /\ Stored(events[posts[j].ev]).Channel = ""
        /\ Stored(events[posts[j].ev]).Text = ""

\* C6: once reverseMergeDefault has succeeded on a Payload, applying it again
\* does not fail and leaves every field as the first application left it.
C6_Idempotent ==
    merge.n >= 2 => (~merge.panicked /\ merge.p = merge.first)

\* C6 witness: a second application, after a first one that filled in defaults.
C6_Witness ==
    /\ merge.n = 2
    /\ merge.first # merge.input
    /\ merge.input.IconEmoji # ""

\* C8: a failed delivery for an event is logged and nothing more: the callback
\* returns with the process running and the hook's activity as it was passed,
\* and every later event that the configuration lets through is posted once,
\* with its own text.
C8_FailureOnlyLogged ==
    \A i \in 1..Len(events) :
        DeliveryFailed(i)
        => /\ LinesOf(i) # {}
           /\ (i = Len(events) => (pc = "running" /\ held = events[i].a))
           /\ \A n \in (i + 1)..Len(events) :
                 Deliverable(events[n])
                 => \E j \in 1..Len(posts) :
                       /\ PostsOf(n) = {j}
                       /\ "text" \in DOMAIN posts[j].body
                       /\ posts[j].body.text = ExpectedText(events[n])

\* C8 witness: a delivery failed (network error or HTTP 500), and the next
\* event's notification was answered 200 OK.
C8_Witness ==
    /\ Len(events) >= 2
    /\ DeliveryFailed(1)
    /\ \E j \in PostsOf(2) : posts[j].resp = "200 OK"

\* C9 (as claimed): every start or stop event of a configured user results in
\* exactly one POST, rendered from the started or the finished template.
C9_EveryEventPosted ==
    \A i \in 1..Len(events) :
        ForUser(events[i])
        => \E j \in 1..Len(posts) :
              /\ PostsOf(i) = {j}
              /\ posts[j].tmpl = ExpectedTemplate(events[i])

\* C9 (amended): when both templates are defined and the webhook URL parses,
\* every start or stop event of a configured user whose Payload does not set
\* both icons results in exactly one POST, failed or not, rendered from the
\* started (start) or finished (stop) template with that user's channel and
\* username; and the POSTs are issued in the order of the events.
C9_OnePostPerDeliverableEvent ==
    /\ \A i \in 1..Len(events) :
          Deliverable(events[i])
          => \E j \in 1..Len(posts) :
                /\ PostsOf(i) = {j}
                /\ posts[j].tmpl = ExpectedTemplate(events[i])
                /\ "text" \in DOMAIN posts[j].body
                /\ posts[j].body.text = ExpectedText(events[i])
                /\ posts[j].body.channel =
                      (IF Stored(events[i]).Channel = "" THEN "#general"
                       ELSE Stored(events[i]).Channel)
                /\ posts[j].body.username =
                      (IF Stored(events[i]).Username = "" THEN "Toggl"
                       ELSE Stored(events[i]).Username)
    /\ \A j, k \in 1..Len(posts) : j < k => posts[j].ev < posts[k].ev

\* C9 witness: a switch between two activities: stop of one, whose POST
\* failed, then start of the other, each posted once and in that order.
C9_Witness ==
    /\ Len(events) = 2
    /\ events[1].kind = "stop"
    /\ events[2].kind = "start"
    /\ events[1].a # events[2].a
    /\ Len(posts) = 2
    /\ posts[1].resp # "200 OK"
    /\ posts[1].tmpl = "finished"
    /\ posts[2].tmpl = "started"

\* C10: every POSTed payload has a non-empty channel and username and exactly
\* one of icon_emoji / icon_url; an empty channel became #general, an empty
\* username became Toggl, the built-in icon URL appears only when the user set
\* neither icon, and every field the user set is posted as set.
C10_PostedPayloadComplete ==
    \A j \in 1..Len(posts) :
        LET b == posts[j].body
            u == Stored(events[posts[j].ev])
            hasEmoji == "icon_emoji" \in DOMAIN b
            hasUrl == "icon_url" \in DOMAIN b
        IN  /\ b.channel # ""
            /\ b.username # ""
            /\ hasEmoji # hasUrl
            /\ b.channel = (IF u.Channel = "" THEN "#general" ELSE u.Channel)
            /\ b.username = (IF u.Username = "" THEN "Toggl" ELSE u.Username)
            /\ (u.IconEmoji # "" => (hasEmoji /\ b.icon_emoji = u.IconEmoji))
            /\ (u.IconUrl # "" => (hasUrl /\ b.icon_url = u.IconUrl))
            /\ (hasUrl /\ b.icon_url =
                  "http://blog.toggl.com/wp-content/uploads/2015/04/toggl-button-light.png")
               <=> (u.IconEmoji = "" /\ u.IconUrl = "")

\* C10 witness: a POST for a user who set an emoji and a username but no
\* channel, and a POST for a user who set a channel and a username but no icon.
C10_Witness ==
    \E j, k \in 1..Len(posts) :
        /\ Stored(events[posts[j].ev]).IconEmoji # ""
        /\ Stored(events[posts[j].ev]).Username # ""
        /\ Stored(events[posts[j].ev]).Channel = ""
        /\ Stored(events[posts[k].ev]).IconEmoji = ""
        /\ Stored(events[posts[k].ev]).IconUrl = ""
        /\ Stored(events[posts[k].ev]).Channel # ""

=============================================================================
